---- MODULE Spec2Model ----
(***************************************************************************)
(* cron-explain: the field parser, the expression parser, validate, the    *)
(* occurrence scanner and the preset expander of src/unnamed/part_000      *)
(* (lib/index.js).  JavaScript strings are sequences of one-character      *)
(* strings; a call's outcome is Return(value) or Throw(error).             *)
(***************************************************************************)
EXTENDS Integers, Sequences, FiniteSets, TLC

VARIABLES pc, op, args, out, fields, isExtended, current, iterations, results

vars == <<pc, op, args, out, fields, isExtended, current, iterations, results>>

(***************************************************************************)
(* JavaScript values and string primitives                                 *)
(***************************************************************************)

\* The result of parseInt, Number arithmetic: an integer, or NaN.  NaN is kept
\* apart from every integer a bounded token can denote.
NaN == -1000000000

IsNaN(x) == x = NaN

Return(v) == [threw |-> FALSE, value |-> v]

Throw(e) == [threw |-> TRUE, error |-> e]

\* A string value and the non-string values a caller may pass.
Str(s) == [type |-> "string", str |-> s, num |-> 0]

Undefined == [type |-> "undefined", str |-> <<>>, num |-> 0]

Null == [type |-> "null", str |-> <<>>, num |-> 0]

Num(n) == [type |-> "number", str |-> <<>>, num |-> n]

Obj == [type |-> "object", str |-> <<>>, num |-> 0]

Function == [type |-> "function", str |-> <<>>, num |-> 0]

\* ToBoolean
Truthy(v) ==
  CASE v.type = "string" -> Len(v.str) > 0
    [] v.type = "number" -> v.num # 0 /\ ~IsNaN(v.num)
    [] v.type \in {"object", "function"} -> TRUE
    [] OTHER -> FALSE

UpperCase == <<"A","B","C","D","E","F","G","H","I","J","K","L","M",
               "N","O","P","Q","R","S","T","U","V","W","X","Y","Z">>

LowerCase == <<"a","b","c","d","e","f","g","h","i","j","k","l","m",
               "n","o","p","q","r","s","t","u","v","w","x","y","z">>

Digits == <<"0","1","2","3","4","5","6","7","8","9">>

WhiteSpace == {" ", "\t", "\n"}

Range(s) == {s[i] : i \in DOMAIN s}

IndexIn(c, s) == CHOOSE i \in DOMAIN s : s[i] = c

LowerChar(c) == IF c \in Range(UpperCase) THEN LowerCase[IndexIn(c, UpperCase)] ELSE c

\* String.prototype.toLowerCase
ToLowerCase(s) == [i \in DOMAIN s |-> LowerChar(s[i])]

\* String.prototype.includes, for a one-character needle
Includes(s, c) == c \in Range(s)

\* String.prototype.startsWith
StartsWith(s, p) == Len(s) >= Len(p) /\ SubSeq(s, 1, Len(p)) = p

RECURSIVE Split(_, _)
\* String.prototype.split on a one-character separator
Split(s, c) ==
  IF ~Includes(s, c) THEN <<s>>
  ELSE LET i == CHOOSE k \in DOMAIN s : s[k] = c /\ \A j \in 1..(k-1) : s[j] # c
       IN <<SubSeq(s, 1, i - 1)>> \o Split(SubSeq(s, i + 1, Len(s)), c)

RECURSIVE ReplaceAll(_, _, _)
\* s.replace(new RegExp(pat, 'gi'), rep): every occurrence, left to right
ReplaceAll(s, pat, rep) ==
  IF Len(s) < Len(pat) THEN s
  ELSE IF ToLowerCase(SubSeq(s, 1, Len(pat))) = ToLowerCase(pat)
       THEN rep \o ReplaceAll(SubSeq(s, Len(pat) + 1, Len(s)), pat, rep)
       ELSE <<s[1]>> \o ReplaceAll(Tail(s), pat, rep)

RECURSIVE NumToString(_)
\* Number.prototype.toString of a non-negative integer
NumToString(n) ==
  IF n < 10 THEN <<Digits[n + 1]>>
  ELSE NumToString(n \div 10) \o <<Digits[(n % 10) + 1]>>

RECURSIVE TrimLeft(_)
TrimLeft(s) == IF s # <<>> /\ s[1] \in WhiteSpace THEN TrimLeft(Tail(s)) ELSE s

RECURSIVE TrimRight(_)
TrimRight(s) ==
  IF s # <<>> /\ s[Len(s)] \in WhiteSpace THEN TrimRight(SubSeq(s, 1, Len(s) - 1)) ELSE s

\* String.prototype.trim
Trim(s) == TrimRight(TrimLeft(s))

RECURSIVE DigitsPrefix(_)
DigitsPrefix(s) ==
  IF s # <<>> /\ s[1] \in Range(Digits) THEN <<s[1]>> \o DigitsPrefix(Tail(s)) ELSE <<>>

RECURSIVE DigitsValue(_)
DigitsValue(d) ==
  IF d = <<>> THEN 0
  ELSE 10 * DigitsValue(SubSeq(d, 1, Len(d) - 1)) + (IndexIn(d[Len(d)], Digits) - 1)

\* parseInt(s, 10): leading white space, an optional sign, then the longest
\* prefix of decimal digits; NaN when there is none.
SignedValue(neg, d) ==
  IF d = <<>> THEN NaN ELSE IF neg THEN 0 - DigitsValue(d) ELSE DigitsValue(d)

ParseIntTrimmed(t) ==
  IF t # <<>> /\ t[1] \in {"-", "+"}
  THEN SignedValue(t[1] = "-", DigitsPrefix(Tail(t)))
  ELSE SignedValue(FALSE, DigitsPrefix(t))

ParseInt(s) == ParseIntTrimmed(TrimLeft(s))

RECURSIVE SplitWhite(_)
\* String.prototype.split(/\s+/) of a trimmed string
SplitWhite(s) ==
  IF \A i \in DOMAIN s : s[i] \notin WhiteSpace THEN <<s>>
  ELSE LET i == CHOOSE k \in DOMAIN s :
                  s[k] \in WhiteSpace /\ \A j \in 1..(k-1) : s[j] \notin WhiteSpace
       IN <<SubSeq(s, 1, i - 1)>> \o SplitWhite(TrimLeft(SubSeq(s, i, Len(s))))

RECURSIVE Dedup(_)
\* [...new Set(values)]: first occurrences, in order
Dedup(s) ==
  IF s = <<>> THEN <<>>
  ELSE LET r == Dedup(SubSeq(s, 1, Len(s) - 1))
       IN IF s[Len(s)] \in Range(r) THEN r ELSE Append(r, s[Len(s)])

RECURSIVE Insert(_, _)
Insert(s, x) ==
  IF s = <<>> THEN <<x>>
  ELSE IF x < s[1] THEN <<x>> \o s ELSE <<s[1]>> \o Insert(Tail(s), x)

RECURSIVE SortAsc(_)
SortAsc(s) == IF s = <<>> THEN <<>> ELSE Insert(SortAsc(Tail(s)), s[1])

RECURSIVE Factorial(_)
Factorial(n) == IF n <= 1 THEN 1 ELSE n * Factorial(n - 1)

RECURSIVE NthPerm(_, _)
\* The k-th arrangement of s, k in 0..Factorial(Len(s))-1
NthPerm(s, k) ==
  IF Len(s) <= 1 THEN s
  ELSE LET i == (k % Len(s)) + 1
       IN <<s[i]>> \o NthPerm(SubSeq(s, 1, i - 1) \o SubSeq(s, i + 1, Len(s)), k \div Len(s))

\* values.sort((a, b) => a - b).  With a NaN among the values the comparator
\* is not consistent (a - NaN is NaN) and the resulting order is
\* implementation-defined: pick selects which arrangement the engine yields.
SortNumeric(s, pick) ==
  IF NaN \in Range(s) THEN NthPerm(s, pick % Factorial(Len(s))) ELSE SortAsc(s)

\* The arrangements an engine may give a list that holds a NaN: one per
\* ordering of its items.
Picks(s) == IF Includes(s, ",") THEN 0..(Factorial(Len(Split(s, ","))) - 1) ELSE {0}

\* for (let i = start; i <= end; i += step) push(i); no iteration when a
\* bound is NaN (a comparison with NaN is false).
Loop(start, end, step) ==
  IF IsNaN(start) \/ IsNaN(end) \/ start > end THEN <<>>
  ELSE [k \in 1..(((end - start) \div step) + 1) |-> start + (k - 1) * step]

RECURSIVE Flatten(_)
Flatten(ss) == IF ss = <<>> THEN <<>> ELSE ss[1] \o Flatten(Tail(ss))

(***************************************************************************)
(* Field table                                                             *)
(***************************************************************************)

MONTH_ABBREVS ==
  << [abbrev |-> <<"j","a","n">>, num |-> 1],  [abbrev |-> <<"f","e","b">>, num |-> 2],
     [abbrev |-> <<"m","a","r">>, num |-> 3],  [abbrev |-> <<"a","p","r">>, num |-> 4],
     [abbrev |-> <<"m","a","y">>, num |-> 5],  [abbrev |-> <<"j","u","n">>, num |-> 6],
     [abbrev |-> <<"j","u","l">>, num |-> 7],  [abbrev |-> <<"a","u","g">>, num |-> 8],
     [abbrev |-> <<"s","e","p">>, num |-> 9],  [abbrev |-> <<"o","c","t">>, num |-> 10],
     [abbrev |-> <<"n","o","v">>, num |-> 11], [abbrev |-> <<"d","e","c">>, num |-> 12] >>

DAY_ABBREVS ==
  << [abbrev |-> <<"s","u","n">>, num |-> 0], [abbrev |-> <<"m","o","n">>, num |-> 1],
     [abbrev |-> <<"t","u","e">>, num |-> 2], [abbrev |-> <<"w","e","d">>, num |-> 3],
     [abbrev |-> <<"t","h","u">>, num |-> 4], [abbrev |-> <<"f","r","i">>, num |-> 5],
     [abbrev |-> <<"s","a","t">>, num |-> 6] >>

FIELD_NAMES == <<"minute", "hour", "day of month", "month", "day of week">>

FIELD_NAMES_6 == <<"second", "minute", "hour", "day of month", "month", "day of week">>

FIELD_RANGES ==
  [f \in Range(FIELD_NAMES_6) |->
     CASE f = "second"       -> [min |-> 0, max |-> 59]
       [] f = "minute"       -> [min |-> 0, max |-> 59]
       [] f = "hour"         -> [min |-> 0, max |-> 23]
       [] f = "day of month" -> [min |-> 1, max |-> 31]
       [] f = "month"        -> [min |-> 1, max |-> 12]
       [] f = "day of week"  -> [min |-> 0, max |-> 7]]

(***************************************************************************)
(* Field parser                                                            *)
(***************************************************************************)

RECURSIVE SubstituteNames(_, _)
\* for (const [abbrev, num] of Object.entries(table)) replace(abbrev, num)
SubstituteNames(s, table) ==
  IF table = <<>> THEN s
  ELSE SubstituteNames(ReplaceAll(s, table[1].abbrev, NumToString(table[1].num)), Tail(table))

\* let normalizedField = field.toLowerCase(), then the names of the field
\* replaced (lines 83-94)
NormalizeLower(lower, fieldName) ==
  IF fieldName = "month" THEN SubstituteNames(lower, MONTH_ABBREVS)
  ELSE IF fieldName = "day of week" THEN SubstituteNames(lower, DAY_ABBREVS)
  ELSE lower

Normalize(field, fieldName) == NormalizeLower(ToLowerCase(field), fieldName)

FieldError(text, field, fieldName) ==
  [text |-> text, fieldName |-> fieldName, field |-> field, got |-> 0]

ParsedField(raw, type, values) == [raw |-> raw, type |-> type, values |-> values]

\* const [a, b] = str.split(sep): the first two pieces, the second undefined
\* (parseInt gives NaN) when there is one piece only.
FirstTwoOf(p) == <<ParseInt(p[1]), IF Len(p) >= 2 THEN ParseInt(p[2]) ELSE NaN>>

FirstTwoInts(str, sep) == FirstTwoOf(Split(str, sep))

\* Wildcard (lines 96-103)
ParseWildcard(field, fieldName) ==
  Return(ParsedField(field, "wildcard",
                     Loop(FIELD_RANGES[fieldName].min, FIELD_RANGES[fieldName].max, 1)))

\* A variant in which a bare integer a stands for the one value a.
StepBoundsBareClosed(rangeStr, range) ==
  IF rangeStr = <<"*">> THEN <<range.min, range.max>>
  ELSE IF Includes(rangeStr, "-") THEN FirstTwoInts(rangeStr, "-")
  ELSE <<ParseInt(rangeStr), ParseInt(rangeStr)>>

\* Step value (lines 105-130)
\* let start, end (lines 115-124)
StepBounds(rangeStr, range) ==
  IF rangeStr = <<"*">> THEN <<range.min, range.max>>
  ELSE IF Includes(rangeStr, "-") THEN FirstTwoInts(rangeStr, "-")
  ELSE <<ParseInt(rangeStr), range.max>>

StepValues(bounds, step) == Loop(bounds[1], bounds[2], step)

StepResult(field, fieldName, rangeStr, step) ==
  IF IsNaN(step) \/ step < 1
  THEN Throw(FieldError("Invalid step value in field '${fieldName}': ${field}",
                        field, fieldName))
  ELSE Return(ParsedField(field, "step",
                          StepValues(StepBounds(rangeStr, FIELD_RANGES[fieldName]), step)))

StepParts(field, fieldName, parts) == StepResult(field, fieldName, parts[1], ParseInt(parts[2]))

ParseStep(field, fieldName, normalizedField) ==
  StepParts(field, fieldName, Split(normalizedField, "/"))

\* One item of a list (lines 137-144)
RangeValues(b) == Loop(b[1], b[2], 1)

ParseListItem(item) ==
  IF Includes(item, "-") THEN RangeValues(FirstTwoInts(item, "-")) ELSE <<ParseInt(item)>>

\* List (lines 132-148)
ListValues(items) == Flatten([i \in DOMAIN items |-> ParseListItem(items[i])])

ParseList(field, normalizedField, pick) ==
  Return(ParsedField(field, "list",
                     SortNumeric(Dedup(ListValues(Split(normalizedField, ","))), pick)))

\* Range (lines 150-158)
ParseRange(field, normalizedField) ==
  Return(ParsedField(field, "range", RangeValues(FirstTwoInts(normalizedField, "-"))))

\* Single value (lines 160-167)
SingleResult(field, fieldName, value) ==
  IF IsNaN(value)
  THEN Throw(FieldError("Invalid value in field '${fieldName}': ${field}", field, fieldName))
  ELSE Return(ParsedField(field, "single", <<value>>))

ParseSingle(field, fieldName, normalizedField) ==
  SingleResult(field, fieldName, ParseInt(normalizedField))

\* parseField(field, fieldName): the first form that applies, in the order
\* wildcard, step, list, range, single.
ParseNormalized(field, fieldName, normalizedField, pick) ==
  IF normalizedField = <<"*">> THEN ParseWildcard(field, fieldName)
  ELSE IF Includes(normalizedField, "/") THEN ParseStep(field, fieldName, normalizedField)
  ELSE IF Includes(normalizedField, ",") THEN ParseList(field, normalizedField, pick)
  ELSE IF Includes(normalizedField, "-") THEN ParseRange(field, normalizedField)
  ELSE ParseSingle(field, fieldName, normalizedField)

ParseField(field, fieldName, pick) ==
  ParseNormalized(field, fieldName, Normalize(field, fieldName), pick)

(***************************************************************************)
(* Expression parser and validate                                          *)
(***************************************************************************)

ExprError(text, got) == [text |-> text, fieldName |-> "", field |-> <<>>, got |-> got]

\* fields[fieldName] = parseField(part, fieldName)
SetField(obj, fieldName, parsed) ==
  [n \in DOMAIN obj \cup {fieldName} |-> IF n = fieldName THEN parsed ELSE obj[n]]

RECURSIVE ParseFields(_, _, _, _, _)
RECURSIVE ParseFieldsNext(_, _, _, _, _, _)
\* After one field: its error thrown, or the field stored and the next parsed
ParseFieldsNext(parts, fieldNames, index, obj, pick, r) ==
  IF r.threw THEN r
  ELSE ParseFields(parts, fieldNames, index + 1, SetField(obj, fieldNames[index], r.value), pick)

\* parts.forEach(...): the fields object filled in, or the first error thrown
ParseFields(parts, fieldNames, index, obj, pick) ==
  IF index > Len(parts) THEN Return(obj)
  ELSE ParseFieldsNext(parts, fieldNames, index, obj, pick,
                       ParseField(parts[index], fieldNames[index], pick))

\* A variant that takes every accepted token count for the extended form.
IsExtendedOfAnyCount(parts) == Len(parts) >= 5

\* const isExtended = parts.length === 6
IsExtendedOf(parts) == Len(parts) = 6

ParseResult(expression, extended, r) ==
  IF r.threw THEN r
  ELSE Return([expression |-> expression, isExtended |-> extended, fields |-> r.value])

ParseExtended(expression, parts, extended, pick) ==
  ParseResult(expression, extended,
              ParseFields(parts, IF extended THEN FIELD_NAMES_6 ELSE FIELD_NAMES, 1, <<>>, pick))

ParseParts(expression, parts, pick) ==
  IF Len(parts) < 5 \/ Len(parts) > 6
  THEN Throw(ExprError("Invalid cron expression: expected 5 or 6 fields, got ${parts.length}",
                       Len(parts)))
  ELSE ParseExtended(expression, parts, IsExtendedOf(parts), pick)

\* parse(expression)
Parse(expression, pick) ==
  IF ~Truthy(expression) \/ expression.type # "string"
  THEN Throw(ExprError("Invalid cron expression: must be a non-empty string", 0))
  ELSE ParseParts(expression, SplitWhite(Trim(expression.str)), pick)

\* A variant of validate without the catch clause: the error of parse escapes.
ValidateWithoutCatch(expression, parsed) ==
  IF ~parsed.threw
  THEN Return([valid |-> TRUE,
               expression |-> expression,
               fields |-> Cardinality(DOMAIN parsed.value.fields),
               isExtended |-> parsed.value.isExtended])
  ELSE parsed

\* validate(expression): try { parse } catch { valid: false }
ValidateParsed(expression, parsed) ==
  IF ~parsed.threw
  THEN Return([valid |-> TRUE,
               expression |-> expression,
               fields |-> Cardinality(DOMAIN parsed.value.fields),
               isExtended |-> parsed.value.isExtended])
  ELSE Return([valid |-> FALSE,
               expression |-> expression,
               error |-> parsed.error])

Validate(expression, pick) == ValidateParsed(expression, Parse(expression, pick))

(***************************************************************************)
(* Date: civil time on a calendar of reduced size.  A Date is a count t of *)
(* whole seconds since the start of year 0 and a sub-second part ms; its   *)
(* getters derive the calendar components, its setters move t.  The sizes  *)
(* stand for 60 s, 60 min, 24 h, 12 months of up to 31 days with a short   *)
(* second month that gains a day in leap years, and 1000 ms.               *)
(***************************************************************************)

SecondsPerMinute == 2

MinutesPerHour == 2

HoursPerDay == 2

MonthsPerYear == 2

LongMonthDays == 3

LeapPeriod == 2

MsPerSecond == 2

SecondsPerDay == HoursPerDay * MinutesPerHour * SecondsPerMinute

IsLeapYear(y) == y % LeapPeriod = 0

DaysInMonth(y, m) ==
  IF m = 2 THEN (LongMonthDays - 2) + (IF IsLeapYear(y) THEN 1 ELSE 0) ELSE LongMonthDays

\* The longest year: 366 days on the real calendar.
DaysInLeapYear == (MonthsPerYear - 1) * LongMonthDays + (LongMonthDays - 2) + 1

RECURSIVE YearMonthDate(_, _, _)
\* The year, month (1-based) and day of month of day number d counted from
\* the first day of month m of year y.
YearMonthDate(d, y, m) ==
  IF d < DaysInMonth(y, m) THEN [year |-> y, month |-> m, date |-> d + 1]
  ELSE IF m = MonthsPerYear THEN YearMonthDate(d - DaysInMonth(y, m), y + 1, 1)
  ELSE YearMonthDate(d - DaysInMonth(y, m), y, m + 1)

Date(t, ms) == [t |-> t, ms |-> ms]

GetSeconds(d) == d.t % SecondsPerMinute

GetMinutes(d) == (d.t \div SecondsPerMinute) % MinutesPerHour

GetHours(d) == (d.t \div (SecondsPerMinute * MinutesPerHour)) % HoursPerDay

DayNumber(d) == d.t \div SecondsPerDay

GetDate(d) == YearMonthDate(DayNumber(d), 0, 1).date

\* getMonth(): 0-based
GetMonth(d) == YearMonthDate(DayNumber(d), 0, 1).month - 1

\* getDay(): 0 is Sunday; day 0 of year 0 is a Sunday
GetDay(d) == DayNumber(d) % 7

SetMilliseconds(d, x) == Date(d.t, x)

\* setSeconds(x): the seconds component replaced, overflow carried
SetSeconds(d, x) == Date(d.t - GetSeconds(d) + x, d.ms)

\* setMinutes(x): the minutes component replaced, overflow carried
SetMinutes(d, x) == Date(d.t + (x - GetMinutes(d)) * SecondsPerMinute, d.ms)

\* The instant of a Date on the time line, in sub-second units.
TimeValue(d) == d.t * MsPerSecond + d.ms

(***************************************************************************)
(* Occurrence scanner                                                      *)
(***************************************************************************)

\* Array.prototype.includes
ArrayIncludes(a, x) == x \in Range(a)

\* const maxIterations = 366 * 24 * 60 * 60: the seconds of the longest year
maxIterations == DaysInLeapYear * HoursPerDay * MinutesPerHour * SecondsPerMinute

\* Move to next second/minute (lines 388-397)
NextSecond(d) == SetSeconds(d, GetSeconds(d) + 1)

NextMinute(d) == SetMinutes(d, GetMinutes(d) + 1)

\* A variant that truncates the starting instant without moving past it.
FirstCandidateNotAdvanced(startFrom, extended) ==
  IF extended THEN SetMilliseconds(startFrom, 0)
  ELSE SetSeconds(SetMilliseconds(startFrom, 0), 0)

\* The first instant tried (lines 385-397)
FirstCandidate(startFrom, extended) ==
  IF extended THEN NextSecond(SetMilliseconds(startFrom, 0))
  ELSE NextMinute(SetSeconds(SetMilliseconds(startFrom, 0), 0))

\* A variant of the day-of-week test without the alias 7 for Sunday.
DayOfWeekMatchesNoAlias(values, d) == ArrayIncludes(values, GetDay(d))

\* The day-of-week test (lines 411-412)
DayOfWeekMatches(values, d) ==
  \/ ArrayIncludes(values, GetDay(d))
  \/ ArrayIncludes(values, IF GetDay(d) = 0 THEN 7 ELSE GetDay(d))

\* const matches = ... (lines 405-412)
Matches(f, extended, d) ==
  /\ (IF extended THEN ArrayIncludes(f["second"].values, GetSeconds(d)) ELSE TRUE)
  /\ ArrayIncludes(f["minute"].values, GetMinutes(d))
  /\ ArrayIncludes(f["hour"].values, GetHours(d))
  /\ ArrayIncludes(f["day of month"].values, GetDate(d))
  /\ ArrayIncludes(f["month"].values, GetMonth(d) + 1)
  /\ DayOfWeekMatches(f["day of week"].values, d)

\* Increment (lines 418-423)
Advance(d, extended) == IF extended THEN NextSecond(d) ELSE NextMinute(d)

\* A variant of the loop condition that collects one timestamp too many.
LoopConditionInclusive(n, count, iters) == n <= count /\ iters < maxIterations

\* while (results.length < count && iterations < maxIterations)
LoopCondition(n, count, iters) == n < count /\ iters < maxIterations

(***************************************************************************)
(* Explanation generator                                                   *)
(***************************************************************************)

MONTHS ==
  << <<"J","a","n","u","a","r","y">>, <<"F","e","b","r","u","a","r","y">>,
     <<"M","a","r","c","h">>, <<"A","p","r","i","l">>, <<"M","a","y">>, <<"J","u","n","e">>, <<"J","u","l","y">>,
     <<"A","u","g","u","s","t">>, <<"S","e","p","t","e","m","b","e","r">>,
     <<"O","c","t","o","b","e","r">>, <<"N","o","v","e","m","b","e","r">>,
     <<"D","e","c","e","m","b","e","r">> >>

DAYS ==
  << <<"S","u","n","d","a","y">>, <<"M","o","n","d","a","y">>, <<"T","u","e","s","d","a","y">>,
     <<"W","e","d","n","e","s","d","a","y">>, <<"T","h","u","r","s","d","a","y">>,
     <<"F","r","i","d","a","y">>, <<"S","a","t","u","r","d","a","y">> >>

\* MONTHS[m]: index 0 holds the empty string, an index outside the array undefined
MonthName(m) ==
  IF m = 0 THEN Str(<<>>) ELSE IF m \in DOMAIN MONTHS THEN Str(MONTHS[m]) ELSE Undefined

\* DAYS[d]
DayName(d) == IF d + 1 \in DOMAIN DAYS THEN Str(DAYS[d + 1]) ELSE Undefined

UpperChar(c) == IF c \in Range(LowerCase) THEN UpperCase[IndexIn(c, LowerCase)] ELSE c

\* Number.prototype.toString
NumberToString(n) == IF IsNaN(n) THEN <<"N","a","N">> ELSE NumToString(n)

\* `${v}`: a string as it is, undefined as the text "undefined"
TemplateString(v) == IF v.type = "undefined" THEN <<"u","n","d","e","f","i","n","e","d">> ELSE v.str

\* An element as Array.prototype.join renders it: undefined as the empty string
JoinString(v) == IF v.type = "undefined" THEN <<>> ELSE v.str

RECURSIVE Join(_, _)
\* Array.prototype.join
Join(items, sep) ==
  IF items = <<>> THEN <<>>
  ELSE IF Len(items) = 1 THEN JoinString(items[1])
  ELSE JoinString(items[1]) \o sep \o Join(Tail(items), sep)

\* padStart(2, '0')
PadStart2(str) == IF Len(str) = 1 THEN <<"0">> \o str ELSE IF str = <<>> THEN <<"0","0">> ELSE str

\* A variant of formatTime without the zero padding.
FormatTimeUnpadded(hour, minute, second) ==
  NumberToString(hour) \o <<":">> \o NumberToString(minute)
  \o (IF second.type # "null" THEN <<":">> \o NumberToString(second.num) ELSE <<>>)

\* formatTime(hour, minute, second): second is a number, or Null
FormatTime(hour, minute, second) ==
  PadStart2(NumberToString(hour)) \o <<":">> \o PadStart2(NumberToString(minute))
  \o (IF second.type # "null" THEN <<":">> \o PadStart2(NumberToString(second.num)) ELSE <<>>)

\* formatList(items)
FormatList(items) ==
  IF Len(items) = 0 THEN Str(<<>>)
  ELSE IF Len(items) = 1 THEN items[1]
  ELSE IF Len(items) = 2
  THEN Str(TemplateString(items[1]) \o <<" ","a","n","d"," ">> \o TemplateString(items[2]))
  ELSE Str(Join(SubSeq(items, 1, Len(items) - 1), <<","," ">>)
           \o <<","," ","a","n","d"," ">> \o TemplateString(items[Len(items)]))

\* parseInt(raw.split('/')[1], 10)
StepOf(raw) == ParseInt(Split(raw, "/")[2])

RECURSIVE TimesOf(_, _, _)
\* for (const h of hour.values) for (const m of minute.values) times.push(...)
TimesOf(hours, minutes, second) ==
  IF hours = <<>> THEN <<>>
  ELSE [i \in DOMAIN minutes |-> Str(FormatTime(hours[1], minutes[i], second))]
       \o TimesOf(Tail(hours), minutes, second)

\* The times rendered (lines 244-250)
TimesPhrase(times) ==
  IF Len(times) = 1 THEN <<"a","t"," ">> \o TemplateString(times[1])
  ELSE IF Len(times) <= 5 THEN <<"a","t"," ">> \o TemplateString(FormatList(times))
  ELSE <<"a","t"," ">> \o NumberToString(Len(times)) \o <<" ","d","i","f","f","e","r","e","n","t"," ","t","i","m","e","s">>

\* second ? second.values[0] : null; an undefined argument takes the
\* parameter's default, null
SecondArgument(f, extended) ==
  IF extended /\ f["second"].values # <<>> THEN Num(f["second"].values[1]) ELSE Null

\* buildTimePart(fields, isExtended)
BuildTime(minute, hour, f, extended) ==
  IF minute.type = "wildcard" /\ hour.type = "wildcard"
  THEN IF extended /\ f["second"].type = "wildcard"
       THEN <<"e","v","e","r","y"," ","s","e","c","o","n","d">>
       ELSE <<"e","v","e","r","y"," ","m","i","n","u","t","e">>
  ELSE IF minute.type = "step" /\ StartsWith(minute.raw, <<"*","/">>) /\ hour.type = "wildcard"
  THEN <<"e","v","e","r","y"," ">> \o NumberToString(StepOf(minute.raw)) \o <<" ","m","i","n","u","t","e","s">>
  ELSE IF /\ hour.type = "step" /\ StartsWith(hour.raw, <<"*","/">>)
          /\ minute.type = "single" /\ minute.values[1] = 0
  THEN <<"e","v","e","r","y"," ">> \o NumberToString(StepOf(hour.raw)) \o <<" ","h","o","u","r","s">>
  ELSE TimesPhrase(TimesOf(hour.values, minute.values, SecondArgument(f, extended)))

BuildTimePart(f, extended) == BuildTime(f["minute"], f["hour"], f, extended)

\* The day-of-month part of buildDatePart (lines 267-276)
DayOfMonthPart(dom) ==
  IF dom.type = "single"
  THEN <<"o","n"," ","d","a","y"," ">> \o NumberToString(dom.values[1])
  ELSE IF Len(dom.values) <= 5
  THEN <<"o","n"," ","d","a","y","s"," ">>
       \o TemplateString(FormatList([i \in DOMAIN dom.values |-> Str(NumberToString(dom.values[i]))]))
  ELSE <<"o","n"," ">> \o NumberToString(Len(dom.values)) \o <<" ","d","a","y","s"," ","o","f"," ","t","h","e"," ","m","o","n","t","h">>

MonthNamesPhrase(monthNames) ==
  IF Len(monthNames) = 1 THEN <<"i","n"," ">> \o TemplateString(monthNames[1])
  ELSE IF Len(monthNames) <= 4 THEN <<"i","n"," ">> \o TemplateString(FormatList(monthNames))
  ELSE <<"i","n"," ">> \o NumberToString(Len(monthNames)) \o <<" ","m","o","n","t","h","s">>

\* The month part of buildDatePart (lines 278-288)
MonthPart(month) == MonthNamesPhrase([i \in DOMAIN month.values |-> MonthName(month.values[i])])

\* buildDatePart(fields): Null, or the parts joined by one space
BuildDate(dom, month) ==
  IF dom.type = "wildcard" /\ month.type = "wildcard" THEN Null
  ELSE Str(Join((IF dom.type # "wildcard" THEN <<Str(DayOfMonthPart(dom))>> ELSE <<>>)
                \o (IF month.type # "wildcard" THEN <<Str(MonthPart(month))>> ELSE <<>>),
                <<" ">>))

BuildDatePart(f) == BuildDate(f["day of month"], f["month"])

DayNamesPhrase(dayNames) ==
  IF Len(dayNames) = 1 THEN Str(<<"o","n"," ">> \o TemplateString(dayNames[1]))
  ELSE IF Len(dayNames) <= 4 THEN Str(<<"o","n"," ">> \o TemplateString(FormatList(dayNames)))
  ELSE Str(<<"o","n"," ">> \o NumberToString(Len(dayNames)) \o <<" ","d","a","y","s"," ","o","f"," ","t","h","e"," ","w","e","e","k">>)

\* isWeekdays (lines 309-310)
IsWeekdays(uniqueValues) ==
  /\ Len(uniqueValues) = 5
  /\ \A i \in DOMAIN uniqueValues : uniqueValues[i] >= 1 /\ uniqueValues[i] <= 5

\* isWeekends (lines 311-312)
IsWeekends(uniqueValues) ==
  Len(uniqueValues) = 2 /\ ArrayIncludes(uniqueValues, 0) /\ ArrayIncludes(uniqueValues, 6)

\* The phrase for the normalised, deduplicated, sorted days (lines 306-327)
DayOfWeekPhrase(uniqueValues) ==
  IF IsWeekdays(uniqueValues) THEN Str(<<"o","n"," ","w","e","e","k","d","a","y","s">>)
  ELSE IF IsWeekends(uniqueValues) THEN Str(<<"o","n"," ","w","e","e","k","e","n","d","s">>)
  ELSE DayNamesPhrase([i \in DOMAIN uniqueValues |-> DayName(uniqueValues[i])])

\* A variant that leaves the alias 7 as it is.
SundayKept(values) == values

\* Normalize Sunday (7 -> 0)
SundayAsZero(values) == [i \in DOMAIN values |-> IF values[i] = 7 THEN 0 ELSE values[i]]

\* buildDayOfWeekPart(fields)
BuildDayOfWeek(dow, pick) ==
  IF dow.type = "wildcard" THEN Null
  ELSE DayOfWeekPhrase(SortNumeric(Dedup(SundayAsZero(dow.values)), pick))

BuildDayOfWeekPart(f, pick) == BuildDayOfWeek(f["day of week"], pick)

\* result.charAt(0).toUpperCase() + result.slice(1)
Capitalize(str) == IF str = <<>> THEN str ELSE <<UpperChar(str[1])>> \o Tail(str)

\* parts.join(', ') of the parts that are present, capitalised
Sentence(timePart, datePart, dowPart) ==
  Str(Capitalize(Join(<<Str(timePart)>>
                      \o (IF Truthy(datePart) THEN <<datePart>> ELSE <<>>)
                      \o (IF Truthy(dowPart) THEN <<dowPart>> ELSE <<>>),
                      <<","," ">>)))

ExplainFields(f, extended, pick) ==
  Sentence(BuildTimePart(f, extended), BuildDatePart(f), BuildDayOfWeekPart(f, pick))

ExplainParsed(parsed, pick) ==
  IF parsed.threw THEN parsed
  ELSE Return(ExplainFields(parsed.value.fields, parsed.value.isExtended, pick))

\* explain(expression)
Explain(expression, pick) == ExplainParsed(Parse(expression, pick), pick)

(***************************************************************************)
(* Preset table                                                            *)
(***************************************************************************)

presets ==
  << [name |-> <<"@","y","e","a","r","l","y">>, expr |-> <<"0"," ","0"," ","1"," ","1"," ","*">>],
     [name |-> <<"@","a","n","n","u","a","l","l","y">>, expr |-> <<"0"," ","0"," ","1"," ","1"," ","*">>],
     [name |-> <<"@","m","o","n","t","h","l","y">>, expr |-> <<"0"," ","0"," ","1"," ","*"," ","*">>],
     [name |-> <<"@","w","e","e","k","l","y">>, expr |-> <<"0"," ","0"," ","*"," ","*"," ","0">>],
     [name |-> <<"@","d","a","i","l","y">>, expr |-> <<"0"," ","0"," ","*"," ","*"," ","*">>],
     [name |-> <<"@","m","i","d","n","i","g","h","t">>, expr |-> <<"0"," ","0"," ","*"," ","*"," ","*">>],
     [name |-> <<"@","h","o","u","r","l","y">>, expr |-> <<"0"," ","*"," ","*"," ","*"," ","*">>] >>

\* presets is an object literal: a key it does not hold itself is looked up
\* on Object.prototype, whose properties are functions (__proto__: an object).
ObjectPrototype ==
  { <<"c","o","n","s","t","r","u","c","t","o","r">>, <<"_","_","p","r","o","t","o","_","_">>,
    <<"t","o","S","t","r","i","n","g">>, <<"v","a","l","u","e","O","f">>,
    <<"h","a","s","O","w","n","P","r","o","p","e","r","t","y">>,
    <<"i","s","P","r","o","t","o","t","y","p","e","O","f">>,
    <<"t","o","L","o","c","a","l","e","S","t","r","i","n","g">>,
    <<"p","r","o","p","e","r","t","y","I","s","E","n","u","m","e","r","a","b","l","e">> }

\* presets[key]
PresetsGet(key) ==
  IF \E i \in DOMAIN presets : presets[i].name = key
  THEN Str(presets[CHOOSE i \in DOMAIN presets : presets[i].name = key].expr)
  ELSE IF key \in ObjectPrototype THEN (IF key = <<"_","_","p","r","o","t","o","_","_">> THEN Obj ELSE Function)
  ELSE Undefined

\* expandPreset(preset)
ExpandLower(preset, lower) ==
  IF Truthy(PresetsGet(lower)) THEN PresetsGet(lower) ELSE preset

ExpandPreset(preset) == ExpandLower(preset, ToLowerCase(preset.str))

(***************************************************************************)
(* Operations                                                              *)
(***************************************************************************)

CallParse ==
  /\ pc = "call"
  /\ op \in {"any", "parse"}
  /\ op' = "parse"
  /\ \E pick \in Picks(args.expression.str) : out' = Parse(args.expression, pick)
  /\ pc' = "done"
  /\ UNCHANGED <<args, fields, isExtended, current, iterations, results>>

CallValidate ==
  /\ pc = "call"
  /\ op \in {"any", "validate"}
  /\ op' = "validate"
  /\ \E pick \in Picks(args.expression.str) : out' = Validate(args.expression, pick)
  /\ pc' = "done"
  /\ UNCHANGED <<args, fields, isExtended, current, iterations, results>>

CallExplain ==
  /\ pc = "call"
  /\ op \in {"any", "explain"}
  /\ op' = "explain"
  /\ \E pick \in Picks(args.expression.str) : out' = Explain(args.expression, pick)
  /\ pc' = "done"
  /\ UNCHANGED <<args, fields, isExtended, current, iterations, results>>

\* nextOccurrences, lines 384-400: parse, then set the cursor up
BeginScan(parsed) ==
  IF parsed.threw
  THEN /\ out' = parsed
       /\ pc' = "done"
       /\ UNCHANGED <<fields, isExtended, current, iterations, results>>
  ELSE /\ fields' = parsed.value.fields
       /\ isExtended' = parsed.value.isExtended
       /\ results' = <<>>
       /\ current' = FirstCandidate(args.startFrom, parsed.value.isExtended)
       /\ iterations' = 0
       /\ pc' = "scan"
       /\ UNCHANGED out

CallNextOccurrences ==
  /\ pc = "call"
  /\ op \in {"any", "nextOccurrences"}
  /\ op' = "nextOccurrences"
  /\ \E pick \in Picks(args.expression.str) : BeginScan(Parse(args.expression, pick))
  /\ UNCHANGED args

\* One iteration of the scan loop, lines 402-424
ScanIterate ==
  /\ pc = "scan"
  /\ LoopCondition(Len(results), args.count, iterations)
  /\ iterations' = iterations + 1
  /\ results' = IF Matches(fields, isExtended, current)
                THEN Append(results, current) ELSE results
  /\ current' = Advance(current, isExtended)
  /\ UNCHANGED <<pc, op, args, out, fields, isExtended>>

\* return results (line 426)
ScanReturn ==
  /\ pc = "scan"
  /\ ~LoopCondition(Len(results), args.count, iterations)
  /\ out' = Return(results)
  /\ pc' = "done"
  /\ UNCHANGED <<op, args, fields, isExtended, current, iterations, results>>

CallExpandPreset ==
  /\ pc = "call"
  /\ op \in {"any", "expandPreset"}
  /\ op' = "expandPreset"
  /\ out' = Return(ExpandPreset(args.preset))
  /\ pc' = "done"
  /\ UNCHANGED <<args, fields, isExtended, current, iterations, results>>

(***************************************************************************)
(* The field parser applied to one token                                   *)
(***************************************************************************)

MaxAtoms == 4

FieldAtoms ==
  { <<"*">>, <<"/">>, <<",">>, <<"-">>, <<"0">>, <<"1">>, <<"5">>,
    <<"M","o","n">>, <<"j","a","n">> }

Tokens == UNION { {Flatten(a) : a \in [1..n -> FieldAtoms]} : n \in 1..MaxAtoms }

NoScan ==
  /\ fields = <<>>
  /\ isExtended = FALSE
  /\ current = 0
  /\ iterations = 0
  /\ results = <<>>

InitField ==
  /\ pc = "call"
  /\ op = "parseField"
  /\ args \in [field : Tokens, fieldName : Range(FIELD_NAMES_6)]
  /\ out = Return(<<>>)
  /\ NoScan

CallParseField ==
  /\ pc = "call"
  /\ op = "parseField"
  /\ \E pick \in Picks(args.field) : out' = ParseField(args.field, args.fieldName, pick)
  /\ pc' = "done"
  /\ UNCHANGED <<op, args, fields, isExtended, current, iterations, results>>

NextField == CallParseField

SpecField == InitField /\ [][NextField]_vars

(***************************************************************************)
(* The public operations applied to one expression                         *)
(***************************************************************************)

MaxTokens == 7

ParseTokens == { <<"*">>, <<"1">>, <<"j","a","n">> }

RECURSIVE JoinTokens(_, _)
JoinTokens(toks, sep) ==
  IF toks = <<>> THEN <<>>
  ELSE IF Len(toks) = 1 THEN toks[1]
  ELSE toks[1] \o sep \o JoinTokens(Tail(toks), sep)

\* Up to MaxTokens tokens, separated by one space or by a space and a tab,
\* with or without white space around them.
ParseString(toks, sep, lead, trail) == lead \o JoinTokens(toks, sep) \o trail

ParseStrings ==
  UNION { { ParseString(toks, sep, lead, trail) :
              toks \in [1..n -> ParseTokens],
              sep \in {<<" ">>, <<" ", "\t">>},
              lead \in {<<>>, <<" ">>},
              trail \in {<<>>, <<" ">>} } : n \in 0..MaxTokens }

NonStrings == {Undefined, Null, Num(0), Num(5), Obj}

InitParse ==
  /\ pc = "call"
  /\ op = "any"
  /\ args \in [expression : {Str(x) : x \in ParseStrings} \cup NonStrings,
               count : {1},
               startFrom : {Date(0, 0)}]
  /\ out = Return(<<>>)
  /\ NoScan

NextParse ==
  \/ CallParse
  \/ CallValidate
  \/ CallExplain
  \/ CallNextOccurrences
  \/ ScanIterate
  \/ ScanReturn

SpecParse == InitParse /\ [][NextParse]_vars

(***************************************************************************)
(* The occurrence scanner applied to valid expressions                     *)
(***************************************************************************)

MaxCount == 2

MaxStart == 4

\* One token per field; the second field is absent in the 5-field form.
ScanStrings ==
  { JoinTokens(sec \o <<min, hour, dom, month, dow>>, <<" ">>) :
      sec \in {<<>>, << <<"*">> >>, << <<"1">> >>},
      min \in {<<"*">>, <<"0">>},
      hour \in {<<"*">>, <<"1">>},
      dom \in {<<"*">>, <<"2">>, <<"3">>},
      month \in {<<"*">>, <<"2">>},
      dow \in {<<"*">>, <<"0">>, <<"7">>} }

InitScan ==
  /\ pc = "call"
  /\ op = "nextOccurrences"
  /\ args \in [expression : {Str(x) : x \in ScanStrings},
               count : 0..MaxCount,
               startFrom : {Date(t, ms) : t \in 0..MaxStart, ms \in 0..(MsPerSecond - 1)}]
  /\ out = Return(<<>>)
  /\ NoScan

NextScan ==
  \/ CallNextOccurrences
  \/ ScanIterate
  \/ ScanReturn

SpecScan == InitScan /\ [][NextScan]_vars

\* The loop runs without interruption: once entered, an iteration or the
\* return that can be taken is taken.
FairSpecScan == SpecScan /\ WF_vars(ScanIterate) /\ WF_vars(ScanReturn)

(***************************************************************************)
(* The preset expander applied to one token                                *)
(***************************************************************************)

PresetBases ==
  { presets[i].name : i \in DOMAIN presets } \cup { presets[i].expr : i \in DOMAIN presets }
  \cup { <<"c","o","n","s","t","r","u","c","t","o","r">>, <<"_","_","p","r","o","t","o","_","_">>,
         <<"t","o","s","t","r","i","n","g">>, <<"@","d","a","i","l">>, <<"@","d","a","i","l","y","y">>,
         <<"d","a","i","l","y">>, <<"@","r","e","b","o","o","t">>, <<"@">>,
         <<"y","e","a","r","l","y","@">>, <<"0"," ","9"," ","*"," ","*"," ","1","-","5">> }

\* The token with its i-th character in upper case (i = 0: as it is;
\* i > Len: all of it in upper case).
UpperAt(str, i) ==
  [k \in DOMAIN str |-> IF k = i \/ i > Len(str) THEN UpperChar(str[k]) ELSE str[k]]

PresetInputs == UNION { {UpperAt(b, i) : i \in 0..(Len(b) + 1)} : b \in PresetBases }

InitPreset ==
  /\ pc = "call"
  /\ op = "expandPreset"
  /\ args \in [preset : {Str(x) : x \in PresetInputs}]
  /\ out = Return(<<>>)
  /\ NoScan

NextPreset == CallExpandPreset

SpecPreset == InitPreset /\ [][NextPreset]_vars

(***************************************************************************)
(* The field parser applied to tokens written rangePart/stepPart           *)
(***************************************************************************)

MaxBound == 3

MaxStep == 3

\* Range parts: the three forms the step rule resolves, and others.
StepRangeParts ==
  { <<"*">>, <<>>, <<"x">>, <<"j","a","n">>, <<"M","o","n","-","f","r","i">>,
    <<"1",",","3">>, <<"1","5">> }
  \cup { NumToString(a) : a \in 0..MaxBound }
  \cup { NumToString(a) \o <<"-">> \o NumToString(b) : a, b \in 0..MaxBound }

\* Step parts: integers from 0, and texts that are no integer.
StepStepParts ==
  { NumToString(n) : n \in 0..MaxStep }
  \cup { <<"1","5">>, <<>>, <<"x">>, <<"-","1">>, <<"2","x">>, <<"1",",","2">>, <<"1","-","2">> }

\* rangePart/stepPart, with or without a further /piece.
StepTokens ==
  { r \o <<"/">> \o st \o tail :
      r \in StepRangeParts, st \in StepStepParts, tail \in {<<>>, <<"/","3">>} }

InitStep ==
  /\ pc = "call"
  /\ op = "parseField"
  /\ args \in [field : StepTokens, fieldName : Range(FIELD_NAMES_6)]
  /\ out = Return(<<>>)
  /\ NoScan

NextStep == CallParseField

SpecStep == InitStep /\ [][NextStep]_vars

(***************************************************************************)
(* explain applied to valid expressions                                    *)
(***************************************************************************)

MaxMinutes == 2

MaxHours == 3

MaxDays == 6

MaxMonths == 5

MaxCommas == 2

\* The text a-b of two numbers.
RangeToken(a, b) == NumToString(a) \o <<"-">> \o NumToString(b)

SecondTokens == { <<>>, << <<"*">> >>, << <<"5">> >>, << <<"1","0",",","2","0">> >> }

MinuteTokens ==
  { <<"*">>, <<"*","/","1","5">>, <<"0">>, <<"3","0">>, <<"0",",","3","0">>,
    <<"0","-","3","0","/","1","5">>, <<"0","/","3","0">> }
  \cup { RangeToken(0, k) : k \in 0..MaxMinutes }

HourTokens ==
  { <<"*">>, <<"*","/","4">>, <<"9">>, <<"9",",","1","8">>, <<"0","-","2","3","/","1","2">> }
  \cup { RangeToken(1, k) : k \in 1..MaxHours }

DayOfMonthTokens ==
  { <<"*">>, <<"1","5">>, <<"1",",","1","5">>, <<"1",",","1">>, <<"*","/","1","0">>,
    <<"3","0","/","5">>, <<"*","/","5">> }
  \cup { RangeToken(1, k) : k \in 1..MaxDays }

MonthTokens ==
  { <<"*">>, <<"6">>, <<"J","A","N">>, <<"1",",","6",",","1","2">>, <<"*","/","2">>,
    <<"1","2","/","2">>, <<"j","a","n","-","m","a","r">> }
  \cup { RangeToken(1, k) : k \in 1..MaxMonths }

DayOfWeekTokens ==
  { <<"*">>, <<"0">>, <<"7">>, <<"m","o","n">>, <<"1","-","5">>, <<"M","O","N","-","F","R","I">>,
    <<"0",",","6">>, <<"6","-","7">>, <<"6",",","7">>, <<"0",",","7">>, <<"5","-","7">>,
    <<"1",",","3",",","5">>, <<"0","-","3">>, <<"0","-","4">>, <<"2","-","6">>, <<"0","-","7">>,
    <<"1","-","4">>, <<"*","/","2">> }

\* Expressions that vary the time fields, and expressions that vary the
\* date and day-of-week fields.
ExplainProducts ==
  { JoinTokens(sec \o <<min, hour, date[1], date[2], dow>>, <<" ">>) :
      sec \in SecondTokens, min \in MinuteTokens, hour \in HourTokens,
      date \in { <<<<"*">>, <<"*">>>>, <<<<"1">>, <<"6">>>> },
      dow \in { <<"*">>, <<"1","-","5">> } }
  \cup
  { JoinTokens(<<time[1], time[2], dom, month, dow>>, <<" ">>) :
      time \in { <<<<"0">>, <<"9">>>>, <<<<"*">>, <<"*">>>> },
      dom \in DayOfMonthTokens, month \in MonthTokens, dow \in DayOfWeekTokens }

\* Those with at most MaxCommas list separators in all.
ExplainStrings ==
  { x \in ExplainProducts : Cardinality({i \in DOMAIN x : x[i] = ","}) <= MaxCommas }

InitExplain ==
  /\ pc = "call"
  /\ op = "explain"
  /\ args \in [expression : {Str(x) : x \in ExplainStrings}]
  /\ out = Return(<<>>)
  /\ NoScan

NextExplain == CallExplain

SpecExplain == InitExplain /\ [][NextExplain]_vars

(***************************************************************************)
(* Claims about the field parser (specification SpecField)                 *)
(***************************************************************************)

\* A component that is written as an integer: decimal digits only.
IsInteger(s) == s # <<>> /\ \A i \in DOMAIN s : s[i] \in Range(Digits)

\* A component that is a month or weekday name of the field it stands in.
IsName(s, fieldName) ==
  \/ fieldName = "month" /\ \E i \in DOMAIN MONTH_ABBREVS : MONTH_ABBREVS[i].abbrev = ToLowerCase(s)
  \/ fieldName = "day of week" /\ \E i \in DOMAIN DAY_ABBREVS : DAY_ABBREVS[i].abbrev = ToLowerCase(s)

IsValue(s, fieldName) == IsInteger(s) \/ IsName(s, fieldName)

\* a-b with both bounds values
IsRangeText(s, fieldName) ==
  LET p == Split(s, "-")
  IN Len(p) = 2 /\ IsValue(p[1], fieldName) /\ IsValue(p[2], fieldName)

\* The token is written in one of the five forms with every component an
\* integer (or a name of the field) and, in the step form, a step >= 1.
WellFormed(s, fieldName) ==
  IF s = <<"*">> THEN TRUE
  ELSE IF Includes(s, "/")
  THEN LET i == CHOOSE k \in DOMAIN s : s[k] = "/" /\ \A j \in 1..(k-1) : s[j] # "/"
           rangePart == SubSeq(s, 1, i - 1)
           stepPart == SubSeq(s, i + 1, Len(s))
       IN /\ IsInteger(stepPart) /\ DigitsValue(stepPart) >= 1
          /\ \/ rangePart = <<"*">>
             \/ IsRangeText(rangePart, fieldName)
             \/ IsValue(rangePart, fieldName)
  ELSE IF Includes(s, ",")
  THEN LET items == Split(s, ",")
       IN \A i \in DOMAIN items :
            IsValue(items[i], fieldName) \/ IsRangeText(items[i], fieldName)
  ELSE IF Includes(s, "-") THEN IsRangeText(s, fieldName)
  ELSE IsValue(s, fieldName)

FieldParsed == pc = "done" /\ op = "parseField" /\ ~out.threw

\* A successful parse of a token every component of which is an integer or a
\* name of its field: what C1 and C2 say of it does not rest on C3.
WellFormedParsed == FieldParsed /\ WellFormed(args.field, args.fieldName)

\* C1: parseField either fails with an error or returns a ParsedField whose
\* values is non-empty; a range a-b with a > b is never a successful parse
\* with empty values.
C1_ValuesNeverEmpty == WellFormedParsed => Len(out.value.values) > 0

\* C2: every element of the values of a successfully parsed field lies in
\* [FieldSpec.min, FieldSpec.max] of that field, and values is strictly
\* ascending with no duplicates, whatever form the token was written in.
C2_ValuesInRangeAscending ==
  WellFormedParsed =>
    LET v == out.value.values
        range == FIELD_RANGES[args.fieldName]
    IN /\ \A i \in DOMAIN v : range.min <= v[i] /\ v[i] <= range.max
       /\ \A i \in DOMAIN v : \A j \in DOMAIN v : i < j => v[i] < v[j]

\* C3: a field token with a component that is not a valid integer (a list
\* item, a bound of a range, the range part of a step, the step itself, an
\* unresolvable name) or with a zero or negative step makes the parser fail
\* with an error naming the field and the raw token; none is accepted.
C3_BadTokenRejected ==
  (pc = "done" /\ op = "parseField" /\ ~WellFormed(args.field, args.fieldName)) =>
    /\ out.threw
    /\ out.error.fieldName = args.fieldName
    /\ out.error.field = args.field

(***************************************************************************)
(* Claims about parse and validate (specification SpecParse)               *)
(***************************************************************************)

\* The positions at which a white-space separated token of s starts.
TokenStarts(s) == {i \in DOMAIN s : s[i] \notin WhiteSpace /\ (i = 1 \/ s[i - 1] \in WhiteSpace)}

\* The k-th token of s, from its start to the next white space.
TokenAt(s, k) ==
  LET b == CHOOSE i \in TokenStarts(s) : Cardinality({j \in TokenStarts(s) : j <= i}) = k
      e == CHOOSE i \in b..Len(s) :
             /\ \A j \in b..i : s[j] \notin WhiteSpace
             /\ (i = Len(s) \/ s[i + 1] \in WhiteSpace)
  IN SubSeq(s, b, e)

TokenCount(v) == IF v.type = "string" THEN Cardinality(TokenStarts(v.str)) ELSE 0

\* parse(expression) fails, decided on the text alone: a wrong number of
\* tokens, or a token none of the five forms resolves for its field.
ParseFails(v) ==
  \/ TokenCount(v) \notin {5, 6}
  \/ \E k \in 1..TokenCount(v) :
       ParseField(TokenAt(v.str, k),
                  (IF TokenCount(v) = 6 THEN FIELD_NAMES_6 ELSE FIELD_NAMES)[k], 0).threw

\* C4: validate never propagates an error, for any input: it returns
\* valid:true with fields the number of parsed fields and isExtended exactly
\* when parse(expression) succeeds, and valid:false with a populated error
\* message exactly when parse(expression) fails; explain and nextOccurrences
\* on the same input propagate the error instead.
C4_ValidateNeverThrows ==
  /\ (pc = "done" /\ op = "validate") =>
       /\ ~out.threw
       /\ out.value.valid = ~ParseFails(args.expression)
       /\ out.value.valid =>
            /\ out.value.fields = TokenCount(args.expression)
            /\ out.value.isExtended = (TokenCount(args.expression) = 6)
            /\ "error" \notin DOMAIN out.value
       /\ ~out.value.valid =>
            /\ "error" \in DOMAIN out.value
            /\ out.value.error.text # ""
  /\ (pc = "done" /\ op \in {"explain", "nextOccurrences"}) =>
       out.threw = ParseFails(args.expression)
  /\ pc = "scan" => ~ParseFails(args.expression)

\* validate has turned the error of a bad field token into valid:false.
C4_Witness ==
  /\ pc = "done" /\ op = "validate"
  /\ ~out.threw /\ ~out.value.valid
  /\ out.value.error.fieldName = "hour"
  /\ TokenCount(args.expression) = 6

\* C5: parse succeeds only when the expression, split on white space after
\* trimming, has exactly 5 or 6 tokens; isExtended is true iff there are 6;
\* fields has exactly one entry per token, assigned by position; any other
\* token count, the empty string or a non-string is a parse error.
C5_FieldCountAndPositions ==
  (pc = "done" /\ op = "parse") =>
    LET n == TokenCount(args.expression)
        names == IF n = 6 THEN FIELD_NAMES_6 ELSE FIELD_NAMES
    IN /\ n \notin {5, 6} => out.threw
       /\ ~out.threw =>
            /\ args.expression.type = "string"
            /\ n \in {5, 6}
            /\ out.value.isExtended = (n = 6)
            /\ DOMAIN out.value.fields = {names[k] : k \in 1..n}
            /\ \A k \in 1..n : out.value.fields[names[k]].raw = TokenAt(args.expression.str, k)

\* A 6-token expression parsed, its fifth token the month.
C5_Witness ==
  /\ pc = "done" /\ op = "parse" /\ ~out.threw
  /\ out.value.isExtended
  /\ out.value.fields["month"].raw = <<"j","a","n">>
  /\ out.value.fields["second"].raw = <<"1">>

(***************************************************************************)
(* Claims about the occurrence scanner (specifications SpecScan and        *)
(* FairSpecScan).  Instants are compared in civil time.                    *)
(***************************************************************************)

Scanning == pc = "scan" \/ (pc = "done" /\ op = "nextOccurrences" /\ ~out.threw)

Returned == pc = "done" /\ op = "nextOccurrences" /\ ~out.threw

\* C6: every timestamp returned by nextOccurrences is strictly later than
\* startFrom (the starting instant itself is never returned, even when it
\* matches all fields), and the sequence is strictly increasing.
C6_LaterThanStartIncreasing ==
  /\ Scanning =>
       /\ \A i \in DOMAIN results : TimeValue(results[i]) > TimeValue(args.startFrom)
       /\ \A i \in DOMAIN results : \A j \in DOMAIN results :
            i < j => TimeValue(results[i]) < TimeValue(results[j])
  /\ Returned => out.value = results

\* Two timestamps were returned from a starting instant that matches all
\* fields itself.
C6_Witness ==
  /\ Returned
  /\ Len(out.value) = 2
  /\ args.startFrom.ms = 0
  /\ Matches(fields, isExtended, args.startFrom)
  /\ (isExtended \/ GetSeconds(args.startFrom) = 0)

\* The values of a field as a set.
ValuesOf(name) == Range(fields[name].values)

\* The instant t seconds after the epoch fires, as C7 states it.
Fires(t) ==
  LET d == Date(t, 0)
      w == GetDay(d)
  IN /\ isExtended => GetSeconds(d) \in ValuesOf("second")
     /\ GetMinutes(d) \in ValuesOf("minute")
     /\ GetHours(d) \in ValuesOf("hour")
     /\ GetDate(d) \in ValuesOf("day of month")
     /\ GetMonth(d) + 1 \in ValuesOf("month")
     /\ (w \in ValuesOf("day of week") \/ (w = 0 /\ 7 \in ValuesOf("day of week")))

\* Whole seconds in extended form, whole minutes in standard form.
OnGrid(t) == isExtended \/ t % SecondsPerMinute = 0

\* The grid instants after startFrom and before the cursor that fire.
FiredBeforeCursor ==
  {t \in args.startFrom.t..(current.t - 1) :
     OnGrid(t) /\ t * MsPerSecond > TimeValue(args.startFrom) /\ Fires(t)}

\* C7: the sequence returned is exactly the earliest matching instants
\* after startFrom, none skipped: a grid instant is returned iff second
\* (extended only), minute, hour, day of month and month are members of
\* their values and its weekday w is in day-of-week values, or w = 0 and 7
\* is; day of month and day of week are combined with AND.
C7_ExactlyTheMatchingInstants ==
  Returned =>
    /\ out.value = results
    /\ {results[i].t : i \in DOMAIN results} = FiredBeforeCursor
    /\ Len(results) = Cardinality(FiredBeforeCursor)
    /\ \A i \in DOMAIN results : results[i].ms = 0
    /\ \A i \in DOMAIN results : \A j \in DOMAIN results : i < j => results[i].t < results[j].t
    /\ (Len(results) > 0 /\ Len(results) = args.count) =>
         results[Len(results)] = Date(current.t - (IF isExtended THEN 1 ELSE SecondsPerMinute), 0)

\* A Sunday was returned for a day-of-week field that holds 7 and not 0,
\* with the day of month restricted as well.
C7_Witness ==
  /\ Returned
  /\ Len(results) >= 1
  /\ 7 \in ValuesOf("day of week") /\ 0 \notin ValuesOf("day of week")
  /\ fields["day of month"].type = "single"
  /\ GetDay(results[1]) = 0

\* C8: the scan loop performs at most 366 days' worth of advance steps:
\* the seconds of 366 days in extended form, the minutes of 366 days in
\* standard form, so no returned timestamp is more than 366 days after
\* startFrom.
C8_CeilingInAdvanceUnit ==
  Scanning =>
    /\ iterations <= (IF isExtended
                      THEN DaysInLeapYear * HoursPerDay * MinutesPerHour * SecondsPerMinute
                      ELSE DaysInLeapYear * HoursPerDay * MinutesPerHour)
    /\ \A i \in DOMAIN results :
         TimeValue(results[i]) - TimeValue(args.startFrom)
           <= DaysInLeapYear * SecondsPerDay * MsPerSecond

\* The number of times the schedule fires before the ceiling: among the
\* maxIterations instants the scan can visit.
FiringsBeforeCeiling ==
  LET first == FirstCandidate(args.startFrom, isExtended).t
      unit == IF isExtended THEN 1 ELSE SecondsPerMinute
  IN Cardinality({k \in 0..(maxIterations - 1) : Fires(first + k * unit)})

\* C9, the result: never more than count timestamps; exactly count when
\* the schedule fires at least count times before the ceiling; a short,
\* possibly empty, result and no error when it fires fewer times or never.
C9_Result ==
  Returned =>
    /\ Len(out.value) <= args.count
    /\ FiringsBeforeCeiling >= args.count => Len(out.value) = args.count
    /\ FiringsBeforeCeiling < args.count =>
         Len(out.value) = FiringsBeforeCeiling /\ iterations = maxIterations

\* C9: nextOccurrences terminates for every valid expression (a scan that
\* has been entered returns), with the result above.
C9_TerminatesWithAtMostCount == ((pc = "scan") ~> (pc = "done")) /\ [](C9_Result)

\* The scan of a schedule that never fires stopped at the ceiling with an
\* empty result.
C9_Witness ==
  /\ Returned
  /\ args.count > 0
  /\ out.value = <<>>
  /\ iterations = maxIterations
  /\ ValuesOf("day of month") = {3} /\ ValuesOf("month") = {2}

(***************************************************************************)
(* Claims about the preset expander (specification SpecPreset)             *)
(***************************************************************************)

IsPresetName(s) == \E i \in DOMAIN presets : presets[i].name = s

CanonicalOf(s) == presets[CHOOSE i \in DOMAIN presets : presets[i].name = s].expr

\* C10: expandPreset(t) returns the canonical expression of the table when
\* the lower-cased t is one of its names, and t itself, unchanged, for
\* every other token; every table entry is a valid 5-field expression.
C10_PresetOrUnchanged ==
  /\ (pc = "done" /\ op = "expandPreset") =>
       /\ ~out.threw
       /\ out.value = IF IsPresetName(ToLowerCase(args.preset.str))
                      THEN Str(CanonicalOf(ToLowerCase(args.preset.str)))
                      ELSE args.preset
  /\ \A i \in DOMAIN presets :
       /\ ~Parse(Str(presets[i].expr), 0).threw
       /\ ~Parse(Str(presets[i].expr), 0).value.isExtended

(***************************************************************************)
(* Claims about the step form (specification SpecStep)                     *)
(***************************************************************************)

\* The position of the first "/" of s.
FirstSlash(s) == CHOOSE k \in DOMAIN s : s[k] = "/" /\ \A j \in 1..(k - 1) : s[j] # "/"

\* The token after name substitution, its range part and its step part.
StepText == Normalize(args.field, args.fieldName)

RangePartOf(s) == SubSeq(s, 1, FirstSlash(s) - 1)

StepPartOf(s) == SubSeq(s, FirstSlash(s) + 1, Len(s))

\* The range part is one of the three forms the claim names.
RangePartResolves(r) ==
  \/ r = <<"*">>
  \/ IsInteger(r)
  \/ (LET p == Split(r, "-") IN Len(p) = 2 /\ IsInteger(p[1]) /\ IsInteger(p[2]))

\* [start, end] of a range part that resolves.
StartOf(r, range) ==
  IF r = <<"*">> THEN range.min
  ELSE IF IsInteger(r) THEN DigitsValue(r)
  ELSE DigitsValue(Split(r, "-")[1])

EndOf(r, range) ==
  IF r = <<"*">> \/ IsInteger(r) THEN range.max
  ELSE DigitsValue(Split(r, "-")[2])

Explained == pc = "done" /\ op = "explain" /\ ~out.threw

\* The parsed fields of the expression explained.
ExplainedFields == Parse(args.expression, 0).value.fields

ExplainedExtended == Parse(args.expression, 0).value.isExtended

\* A number below 100 in two digits.
TwoDigits(n) == <<Digits[(n \div 10) + 1], Digits[(n % 10) + 1]>>

RECURSIVE CommaSeparated(_)
\* The items separated by ", ".
CommaSeparated(items) ==
  IF Len(items) = 1 THEN items[1]
  ELSE items[1] \o <<",", " ">> \o CommaSeparated(Tail(items))

\* A list of two or more items in words: "A and B", "A, B, and C".
GrammaticalList(items) ==
  IF Len(items) = 2 THEN items[1] \o <<" ","a","n","d"," ">> \o items[2]
  ELSE CommaSeparated(SubSeq(items, 1, Len(items) - 1)) \o <<","," ","a","n","d"," ">> \o items[Len(items)]

\* The sentence of the clauses that are present (an absent one is <<>>):
\* joined by ", ", the first character in upper case.
SentenceOf(time, date, dow) ==
  Str(Capitalize(time \o (IF date # <<>> THEN <<",", " ">> \o date ELSE <<>>)
                      \o (IF dow # <<>> THEN <<",", " ">> \o dow ELSE <<>>)))

\* The clauses explain builds, an absent one as <<>>.
TimeBuilt == BuildTimePart(ExplainedFields, ExplainedExtended)

DateBuilt == BuildDatePart(ExplainedFields).str

DayOfWeekBuilt == BuildDayOfWeekPart(ExplainedFields, 0).str

\* HH:MM, or HH:MM:SS in extended form with the first value of second.
ClockTime(h, m) ==
  TwoDigits(h) \o <<":">> \o TwoDigits(m)
  \o (IF ExplainedExtended
      THEN <<":">> \o TwoDigits(ExplainedFields["second"].values[1]) ELSE <<>>)

\* The hour x minute product, hour outer, minute inner.
ClockTimes(hours, minutes) ==
  [k \in 1..(Len(hours) * Len(minutes)) |->
     ClockTime(hours[((k - 1) \div Len(minutes)) + 1], minutes[((k - 1) % Len(minutes)) + 1])]

\* The step written after the leading star and slash.
StarStep(raw) == NumToString(DigitsValue(SubSeq(raw, 3, Len(raw))))

IsStarStep(field) == field.type = "step" /\ SubSeq(field.raw, 1, 2) = <<"*", "/">>

\* Rule d of the time clause.
TimesClause(times) ==
  IF Len(times) = 1 THEN <<"a","t"," ">> \o times[1]
  ELSE IF Len(times) <= 5 THEN <<"a","t"," ">> \o GrammaticalList(times)
  ELSE <<"a","t"," ">> \o NumToString(Len(times)) \o <<" ","d","i","f","f","e","r","e","n","t"," ","t","i","m","e","s">>

\* The time clause by the first matching rule of a-d.
TimeClause(second, minute, hour) ==
  IF minute.type = "wildcard" /\ hour.type = "wildcard"
  THEN IF ExplainedExtended /\ second.type = "wildcard"
       THEN <<"e","v","e","r","y"," ","s","e","c","o","n","d">> ELSE <<"e","v","e","r","y"," ","m","i","n","u","t","e">>
  ELSE IF IsStarStep(minute) /\ hour.type = "wildcard"
  THEN <<"e","v","e","r","y"," ">> \o StarStep(minute.raw) \o <<" ","m","i","n","u","t","e","s">>
  ELSE IF IsStarStep(hour) /\ minute.type = "single" /\ minute.values = <<0>>
  THEN <<"e","v","e","r","y"," ">> \o StarStep(hour.raw) \o <<" ","h","o","u","r","s">>
  ELSE TimesClause(ClockTimes(hour.values, minute.values))

\* C12: the time clause of explain is chosen by the first matching rule in
\* the order a-d: (a) minute and hour both wildcard: "every second" if
\* extended and second is wildcard, else "every minute"; (b) minute a step
\* written */n and hour wildcard: "every n minutes"; (c) hour a step written
\* */n and minute the single value 0: "every n hours"; (d) otherwise the
\* hour x minute product, zero-padded HH:MM or HH:MM:SS, as "at T" for one
\* time, a list in words for 2-5 and "at N different times" for more.
C12_TimeClause ==
  Explained =>
    out.value =
      SentenceOf(TimeClause(IF ExplainedExtended THEN ExplainedFields["second"]
                            ELSE ExplainedFields["minute"],
                            ExplainedFields["minute"], ExplainedFields["hour"]),
                 DateBuilt, DayOfWeekBuilt)

\* Rule d gave a list of three zero-padded times with seconds, the minute
\* field a step that is not written with a star.
C12_Witness ==
  /\ Explained
  /\ ExplainedExtended
  /\ ExplainedFields["minute"].raw = <<"0","-","3","0","/","1","5">>
  /\ ExplainedFields["hour"].type = "single"
  /\ ExplainedFields["second"].type = "single"
  /\ SubSeq(out.value.str, 1, 35) = <<"A","t"," ","0","9",":","0","0",":","0","5",","," ","0","9",":","1","5",":","0","5",","," ","a","n","d"," ","0","9",":","3","0",":","0","5">>

\* The members of a set of numbers in ascending order.
Ascending(S) ==
  [k \in 1..Cardinality(S) |-> CHOOSE x \in S : Cardinality({y \in S : y < x}) = k - 1]

\* The days of a day-of-week field, 7 taken as 0, without duplicates.
DaySet(dow) == {IF dow.values[i] = 7 THEN 0 ELSE dow.values[i] : i \in DOMAIN dow.values}

\* The names of the days of a set, in ascending order of the day.
DayNamesOf(S) == [k \in 1..Cardinality(S) |-> DAYS[Ascending(S)[k] + 1]]

\* The day-of-week clause; <<>> when it is omitted.
DayOfWeekClause(dow) ==
  IF dow.type = "wildcard" THEN <<>>
  ELSE IF DaySet(dow) = 1..5 THEN <<"o","n"," ","w","e","e","k","d","a","y","s">>
  ELSE IF DaySet(dow) = {0, 6} THEN <<"o","n"," ","w","e","e","k","e","n","d","s">>
  ELSE IF Cardinality(DaySet(dow)) = 1 THEN <<"o","n"," ">> \o DayNamesOf(DaySet(dow))[1]
  ELSE IF Cardinality(DaySet(dow)) <= 4 THEN <<"o","n"," ">> \o GrammaticalList(DayNamesOf(DaySet(dow)))
  ELSE <<"o","n"," ">> \o NumToString(Cardinality(DaySet(dow))) \o <<" ","d","a","y","s"," ","o","f"," ","t","h","e"," ","w","e","e","k">>

DayOfMonthClause(dom) ==
  IF Len(dom.values) = 1 THEN <<"o","n"," ","d","a","y"," ">> \o NumToString(dom.values[1])
  ELSE IF Len(dom.values) <= 5
  THEN <<"o","n"," ","d","a","y","s"," ">> \o GrammaticalList([i \in DOMAIN dom.values |-> NumToString(dom.values[i])])
  ELSE <<"o","n"," ">> \o NumToString(Len(dom.values)) \o <<" ","d","a","y","s"," ","o","f"," ","t","h","e"," ","m","o","n","t","h">>

\* The month part, by the number of values of the field.
MonthClause(month) ==
  IF Len(month.values) = 1 THEN <<"i","n"," ">> \o MONTHS[month.values[1]]
  ELSE IF Len(month.values) <= 4
  THEN <<"i","n"," ">> \o GrammaticalList([i \in DOMAIN month.values |-> MONTHS[month.values[i]]])
  ELSE <<"i","n"," ">> \o NumToString(Len(month.values)) \o <<" ","m","o","n","t","h","s">>

\* The date clause; <<>> when it is omitted.
DateClause(dom, month) ==
  IF dom.type = "wildcard" /\ month.type = "wildcard" THEN <<>>
  ELSE IF month.type = "wildcard" THEN DayOfMonthClause(dom)
  ELSE IF dom.type = "wildcard" THEN MonthClause(month)
  ELSE DayOfMonthClause(dom) \o <<" ">> \o MonthClause(month)

\* C14: the date clause of explain is emitted iff day of month or month is
\* not a wildcard; its day-of-month part is chosen by the number of values
\* of the field however the token was written: "on day {d}" for one value,
\* "on days {list}" for 2 to 5, "on {n} days of the month" for more; the
\* month part is "in {Month}" for one value, "in {list}" for up to 4 and
\* "in {n} months" for more; the two parts are joined by one space.
C14_DateClause ==
  Explained =>
    out.value = SentenceOf(TimeBuilt,
                           DateClause(ExplainedFields["day of month"], ExplainedFields["month"]),
                           DayOfWeekBuilt)

====
